---- MODULE Spec2Model ----
(***************************************************************************)
(* Model of the fraud-loss Monte Carlo engine (fraud_risk_sim):            *)
(* run_monte_carlo, kpis, tornado_data and lhs_samples.                    *)
(*                                                                         *)
(* Arithmetic.  Python floats are modelled exactly:                        *)
(*   - rates and sev_sigma are fixed-point integers in units of 1/Den;     *)
(*   - perturb is an integer in units of 1/PerturbDen;                     *)
(*   - every derived real (mean, quantile, tail mean, delta) is a rational *)
(*     [num, den] with den > 0.                                            *)
(* Floating-point rounding is therefore outside the model.                 *)
(*                                                                         *)
(* Randomness.  numpy's Generator is modelled as a small full-period       *)
(* linear congruential generator whose state is a function of the seed     *)
(* alone; Poisson and normal samples are deterministic functions of the    *)
(* generator state and of the distribution parameters.                     *)
(***************************************************************************)
EXTENDS Integers, Sequences, FiniteSets, TLC

VARIABLES
    \* run_monte_carlo: control point, arguments and locals
    pc, caller, params, seed, n_paths, rng, n_fraud, frac_undetected,
    total_draws, severities, losses, cursor, i, result,
    \* samples requested from the generator by the current run_monte_carlo call
    drawn,
    \* kpis: the calls made on the current result, in order
    kpiLog,
    \* tornado_data: control point, arguments and locals
    tpc, tparams, cfg_seed, tn_paths, perturb, phase, base_mean, lo, hi, bars,
    \* the run_monte_carlo calls tornado_data has completed, in order
    runs,
    \* lhs_samples: the records returned by the last call
    samples,
    \* the first completed top-level run_monte_carlo call: arguments and result,
    \* and whether another call has completed since
    first

engineVars == << pc, caller, params, seed, n_paths, rng, n_fraud, frac_undetected,
                 total_draws, severities, losses, cursor, i, result, drawn >>
tornadoVars == << tpc, tparams, cfg_seed, tn_paths, perturb, phase, base_mean, lo, hi,
                  bars, runs >>
vars == << engineVars, kpiLog, tornadoVars, samples, first >>

\* ------------------------------------------------------------------ bounds

\* n_paths ranges over 1..MaxPaths
MaxPaths == 3
\* seeds range over 0..MaxSeed
MaxSeed == 1

\* ------------------------------------------------------- fixed-point units

\* unit of the float fields base_fraud_rate, detection_rate, sev_sigma
Den == 100
\* unit of perturb
PerturbDen == 10

\* ---------------------------------------------------------------- rationals

Rat(n, d) == [num |-> n, den |-> d]
RZero == Rat(0, 1)
RLeq(a, b) == a.num * b.den <= b.num * a.den
RLt(a, b) == a.num * b.den < b.num * a.den
REq(a, b) == a.num * b.den = b.num * a.den
RSub(a, b) == Rat(a.num * b.den - b.num * a.den, a.den * b.den)
RAbs(a) == IF a.num < 0 THEN Rat(-a.num, a.den) ELSE a
RMax(a, b) == IF RLt(a, b) THEN b ELSE a

\* Python int(x) on the rational num/den, den > 0: truncation toward zero
Trunc(num, den) == IF num >= 0 THEN num \div den ELSE -((-num) \div den)

\* np.clip(x, a, b)
Clip(x, a, b) == IF x < a THEN a ELSE IF x > b THEN b ELSE x

RECURSIVE SumSeq(_)
SumSeq(s) == IF s = << >> THEN 0 ELSE Head(s) + SumSeq(Tail(s))

Zeros(n) == [k \in 1..n |-> 0]

RECURSIVE InsertAsc(_, _)
InsertAsc(x, s) ==
    IF s = << >> THEN << x >>
    ELSE IF x < Head(s) THEN << x >> \o s
    ELSE << Head(s) >> \o InsertAsc(x, Tail(s))

RECURSIVE SortAsc(_)
SortAsc(s) == IF s = << >> THEN << >> ELSE InsertAsc(Head(s), SortAsc(Tail(s)))

\* ---------------------------------------------------------------- generator

\* one step of the bit generator
NextState(s) == (5 * s + 3) % 32

\* a generator left over from an earlier call (never reseeded)
stale_rng(sd) == rng

\* np.random.default_rng(seed): the state is a function of the seed alone
default_rng(sd) == (7 * sd + 1) % 32

\* exp(x / Den) as a positive, monotone fixed-point surrogate
Exp(x) == IF x <= 0 THEN 1 ELSE 1 + x

\* one Poisson(lamH / Den) sample from generator state s
PoissonSample(s, lamH) == IF lamH = 0 THEN 0 ELSE s % (((2 * lamH) \div Den) + 1)

\* one exp(Normal(mu, sigmaH / Den)) sample from generator state s
SeveritySample(s, mu, sigmaH) == Exp(mu * Den + sigmaH * ((s % 3) - 1))

\* rng.poisson(lam, size=n): n samples from successive generator states
RECURSIVE PoissonDraws(_, _, _)
PoissonDraws(s, lamH, n) ==
    IF n = 0 THEN [vals |-> << >>, rng |-> s]
    ELSE LET s1 == NextState(s)
             rest == PoissonDraws(s1, lamH, n - 1)
         IN  [vals |-> << PoissonSample(s1, lamH) >> \o rest.vals, rng |-> rest.rng]

\* np.exp(rng.normal(mu, sigma, size=n))
RECURSIVE SeverityDraws(_, _, _, _)
SeverityDraws(s, mu, sigmaH, n) ==
    IF n = 0 THEN [vals |-> << >>, rng |-> s]
    ELSE LET s1 == NextState(s)
             rest == SeverityDraws(s1, mu, sigmaH, n - 1)
         IN  [vals |-> << SeveritySample(s1, mu, sigmaH) >> \o rest.vals, rng |-> rest.rng]

\* ------------------------------------------------------------ inputs

\* SimConfig defaults for the fields the loss model never reads
MakeParams(ntx, pf, pd, sigma) ==
    [n_transactions |-> ntx, avg_ticket |-> 85, base_fraud_rate |-> pf,
     detection_rate |-> pd, false_positive_rate |-> 1, sev_mu |-> 1,
     sev_sigma |-> sigma, monthly_loss_budget |-> 202]

\* the parameter sets run_monte_carlo is called with: valid ones, the
\* degenerate ones and invalid ones (negative rate, rate above 1, sigma <= 0)
ParamSpace ==
    { MakeParams(ntx, pf, pd, sigma) :
        ntx \in {0, 10}, pf \in {-10, 0, 40}, pd \in {0, 50, 70, 100, 120},
        sigma \in {-10, 0, 10} }

Seeds == 0..MaxSeed
PathCounts == 1..MaxPaths

\* budgets kpis is called with: below, equal to and above a one-incident loss
Budgets == {0, 101, 202}

\* ParameterSet invariants: rates in [0,1], sev_sigma > 0, n_transactions >= 0
ValidParams(p) ==
    /\ p.n_transactions >= 0
    /\ p.base_fraud_rate >= 0 /\ p.base_fraud_rate <= Den
    /\ p.detection_rate >= 0 /\ p.detection_rate <= Den
    /\ p.sev_sigma > 0

\* -------------------------------------------------------- run_monte_carlo

NoParams == MakeParams(0, 0, 0, 0)
NoResult ==
    [kind |-> "none", losses |-> << >>, mean_loss |-> RZero, var_95 |-> RZero,
     cvar_95 |-> RZero, n_fraud_mean |-> RZero]

\* lam = n_tx * p_fraud, in units of 1/Den
Lam(p) == p.n_transactions * p.base_fraud_rate

\* the detected fraction taken for the undetected one
FracUndetectedIsDetect(p_detect) == Clip(p_detect, 0, Den)

\* frac_undetected = np.clip(1.0 - p_detect, 0.0, 1.0), in units of 1/Den
FracUndetected(p_detect) == Clip(Den - p_detect, 0, Den)

\* pool sized by the number of paths instead of the number of incidents
TotalDrawsByPaths(nf, fu) == Trunc(Len(nf) * fu + Den, Den)

\* total_draws = int(n_fraud.sum() * frac_undetected + 1)
TotalDraws(nf, fu) == Trunc(SumSeq(nf) * fu + Den, Den)

\* undet = int(nf * frac_undetected)
Undet(nf, fu) == Trunc(nf * fu, Den)

\* severities[cursor: cursor + undet].sum(): a Python slice stops at the end
\* of the array
SliceSum(sev, cur, undet) ==
    LET last == IF cur + undet > Len(sev) THEN Len(sev) ELSE cur + undet
    IN  SumSeq([k \in 1..(IF last > cur THEN last - cur ELSE 0) |-> sev[cur + k]])

\* the cursor left where it was
NextCursorStuck(cur, undet) == cur

\* cursor += undet
NextCursor(cur, undet) == cur + undet

\* the 95% level of np.quantile
Q95 == [num |-> 19, den |-> 20]

\* np.quantile(a, q), linear interpolation between the two nearest ranks
Quantile(a, q) ==
    LET srt == SortAsc(a)
        n == Len(a)
        pos == q.num * (n - 1)
        lower == pos \div q.den
        rem == pos % q.den
        upper == IF lower + 1 > n - 1 THEN n - 1 ELSE lower + 1
    IN  Rat(q.den * srt[lower + 1] + rem * (srt[upper + 1] - srt[lower + 1]), q.den)

\* the tail taken strictly above the threshold
TailOfStrict(ls, var) == SelectSeq(ls, LAMBDA l : RLt(var, Rat(l, 1)))

\* tail = losses[losses >= var_95]
TailOf(ls, var) == SelectSeq(ls, LAMBDA l : RLeq(var, Rat(l, 1)))

\* cvar_95 = tail.mean() if tail.size else 0.0
TailMean(tail) == IF Len(tail) > 0 THEN Rat(SumSeq(tail), Len(tail)) ELSE RZero

\* Mean of a non-empty array
Mean(a) == Rat(SumSeq(a), Len(a))

\* run_monte_carlo, entry: the generator is built from the seed
EngineEnter(p, sd, n, who) ==
    /\ pc' = "poisson"
    /\ caller' = who
    /\ params' = p
    /\ seed' = sd
    /\ n_paths' = n
    /\ rng' = default_rng(sd)
    /\ n_fraud' = << >>
    /\ frac_undetected' = 0
    /\ total_draws' = 0
    /\ severities' = << >>
    /\ losses' = << >>
    /\ cursor' = 0
    /\ i' = 0
    /\ result' = NoResult
    /\ drawn' = [poisson |-> 0, normal |-> 0]

\* a top-level call of run_monte_carlo
Call(p, sd, n) ==
    /\ pc = "idle"
    /\ tpc = "none"
    /\ EngineEnter(p, sd, n, "main")
    /\ kpiLog' = << >>
    /\ samples' = << >>
    /\ UNCHANGED << tornadoVars, first >>

\* n_fraud = rng.poisson(lam, size=n_paths); numpy raises ValueError on lam < 0
DrawPoisson ==
    /\ pc = "poisson"
    /\ IF Lam(params) < 0
       THEN /\ pc' = "raised"
            /\ UNCHANGED << rng, n_fraud, drawn >>
       ELSE LET d == PoissonDraws(rng, Lam(params), n_paths)
            IN  /\ pc' = "pool"
                /\ rng' = d.rng
                /\ n_fraud' = d.vals
                /\ drawn' = [drawn EXCEPT !.poisson = @ + n_paths]
    /\ UNCHANGED << caller, params, seed, n_paths, frac_undetected, total_draws,
                    severities, losses, cursor, i, result, kpiLog, tornadoVars,
                    samples, first >>

\* frac_undetected, total_draws and the early return on total_draws <= 0
SizePool ==
    /\ pc = "pool"
    /\ LET fu == FracUndetected(params.detection_rate)
           td == TotalDraws(n_fraud, fu)
       IN  /\ frac_undetected' = fu
           /\ total_draws' = td
           /\ IF td <= 0
              THEN /\ losses' = Zeros(n_paths)
                   /\ result' = [kind |-> "early", losses |-> Zeros(n_paths),
                                 mean_loss |-> Mean(Zeros(n_paths)),
                                 var_95 |-> Quantile(Zeros(n_paths), Q95),
                                 cvar_95 |-> RZero,
                                 n_fraud_mean |-> Mean(n_fraud)]
                   /\ pc' = "returned"
              ELSE /\ pc' = "severities"
                   /\ UNCHANGED << losses, result >>
    /\ UNCHANGED << caller, params, seed, n_paths, rng, n_fraud, severities, cursor,
                    i, drawn, kpiLog, tornadoVars, samples, first >>

\* severities = np.exp(rng.normal(sev_mu, sev_sigma, size=total_draws)); numpy
\* raises ValueError on scale < 0.  Then losses = zeros, cursor = 0.
DrawSeverities ==
    /\ pc = "severities"
    /\ IF params.sev_sigma < 0
       THEN /\ pc' = "raised"
            /\ UNCHANGED << rng, severities, losses, drawn >>
       ELSE LET d == SeverityDraws(rng, params.sev_mu, params.sev_sigma, total_draws)
            IN  /\ pc' = "aggregate"
                /\ rng' = d.rng
                /\ severities' = d.vals
                /\ losses' = Zeros(n_paths)
                /\ drawn' = [drawn EXCEPT !.normal = @ + total_draws]
    /\ cursor' = 0
    /\ i' = 0
    /\ UNCHANGED << caller, params, seed, n_paths, n_fraud, frac_undetected,
                    total_draws, result, kpiLog, tornadoVars, samples, first >>

\* one iteration of "for i, nf in enumerate(n_fraud)"
AggregatePath ==
    /\ pc = "aggregate"
    /\ i < n_paths
    /\ LET undet == Undet(n_fraud[i + 1], frac_undetected)
       IN  IF undet > 0
           THEN /\ losses' = [losses EXCEPT ![i + 1] = SliceSum(severities, cursor, undet)]
                /\ cursor' = NextCursor(cursor, undet)
           ELSE /\ losses' = [losses EXCEPT ![i + 1] = 0]
                /\ UNCHANGED cursor
    /\ i' = i + 1
    /\ UNCHANGED << pc, caller, params, seed, n_paths, rng, n_fraud, frac_undetected,
                    total_draws, severities, result, drawn, kpiLog, tornadoVars,
                    samples, first >>

\* var_95, tail, cvar_95 and the returned dict
Metrics ==
    /\ pc = "aggregate"
    /\ i = n_paths
    /\ LET var_95 == Quantile(losses, Q95)
           tail == TailOf(losses, var_95)
       IN  result' = [kind |-> "normal", losses |-> losses, mean_loss |-> Mean(losses),
                      var_95 |-> var_95, cvar_95 |-> TailMean(tail),
                      n_fraud_mean |-> Mean(n_fraud)]
    /\ pc' = "returned"
    /\ UNCHANGED << caller, params, seed, n_paths, rng, n_fraud, frac_undetected,
                    total_draws, severities, losses, cursor, i, drawn, kpiLog,
                    tornadoVars, samples, first >>

\* ------------------------------------------------------------------- kpis

\* kpis is called at most MaxKpiCalls times on one result
MaxKpiCalls == 2

\* a loss equal to the budget counted as a breach
BreachCountAtLeast(ls, budget) == Len(SelectSeq(ls, LAMBDA l : l >= budget))

\* (losses > monthly_loss_budget).sum()
BreachCount(ls, budget) == Len(SelectSeq(ls, LAMBDA l : l > budget))

\* kpis(sim_result, monthly_loss_budget)
kpis(sim_result, monthly_loss_budget) ==
    [expected_loss |-> sim_result.mean_loss,
     var_95 |-> sim_result.var_95,
     cvar_95 |-> sim_result.cvar_95,
     breach_prob |-> Rat(BreachCount(sim_result.losses, monthly_loss_budget),
                         Len(sim_result.losses))]

\* the caller computes the KPIs of the result it holds
Kpis(b) ==
    /\ pc = "returned"
    /\ caller = "main"
    /\ Len(kpiLog) < MaxKpiCalls
    /\ kpiLog' = Append(kpiLog, [budget |-> b, kpi |-> kpis(result, b)])
    /\ UNCHANGED << engineVars, tornadoVars, samples, first >>

\* ---------------------------------------------------------- specification

NoFirst ==
    [set |-> FALSE, between |-> FALSE, params |-> NoParams, seed |-> 0,
     n_paths |-> 0, result |-> NoResult]

Init ==
    /\ pc = "idle"
    /\ caller = "main"
    /\ params = NoParams
    /\ seed = 0
    /\ n_paths = 0
    /\ rng = 0
    /\ n_fraud = << >>
    /\ frac_undetected = 0
    /\ total_draws = 0
    /\ severities = << >>
    /\ losses = << >>
    /\ cursor = 0
    /\ i = 0
    /\ result = NoResult
    /\ drawn = [poisson |-> 0, normal |-> 0]
    /\ kpiLog = << >>
    /\ tpc = "none"
    /\ tparams = NoParams
    /\ cfg_seed = 0
    /\ tn_paths = 0
    /\ perturb = 0
    /\ phase = 0
    /\ base_mean = RZero
    /\ lo = RZero
    /\ hi = RZero
    /\ bars = << >>
    /\ runs = << >>
    /\ samples = << >>
    /\ first = NoFirst

\* single runs of the engine on every input, each followed by kpis
Next ==
    \/ \E p \in ParamSpace, sd \in Seeds, n \in PathCounts : Call(p, sd, n)
    \/ DrawPoisson
    \/ SizePool
    \/ DrawSeverities
    \/ AggregatePath
    \/ Metrics
    \/ \E b \in Budgets : Kpis(b)

Spec == Init /\ [][Next]_vars

\* ----------------------------------------------------------- tornado_data

keys == << "base_fraud_rate", "detection_rate", "sev_sigma" >>

\* v * num / PerturbDen; exact on the fixed-point inputs used here
Scaled(v, num) == (v * num) \div PerturbDen

Min2(a, b) == IF a < b THEN a ELSE b
Max2(a, b) == IF a > b THEN a ELSE b

\* the low variant perturbed upwards
LowParamsRaised(p, k, pt) ==
    IF k = "detection_rate"
    THEN [p EXCEPT ![k] = Min2(Den, Scaled(p[k], PerturbDen + pt))]
    ELSE [p EXCEPT ![k] = Scaled(p[k], PerturbDen + pt)]

\* p_lo: params with driver k multiplied by (1 - perturb)
LowParams(p, k, pt) ==
    IF k = "detection_rate"
    THEN [p EXCEPT ![k] = Max2(0, Scaled(p[k], PerturbDen - pt))]
    ELSE [p EXCEPT ![k] = Scaled(p[k], PerturbDen - pt)]

\* p_hi: params with driver k multiplied by (1 + perturb)
HighParams(p, k, pt) ==
    IF k = "detection_rate"
    THEN [p EXCEPT ![k] = Min2(Den, Scaled(p[k], PerturbDen + pt))]
    ELSE [p EXCEPT ![k] = Scaled(p[k], PerturbDen + pt)]

\* the sort key max(abs(x[1]), abs(x[2]))
Magnitude(bar) == RMax(RAbs(bar.low), RAbs(bar.high))

\* insertion behind every element whose key is not smaller: stable, descending
RECURSIVE InsertDesc(_, _)
InsertDesc(x, s) ==
    IF s = << >> THEN << x >>
    ELSE IF RLt(Magnitude(Head(s)), Magnitude(x)) THEN << x >> \o s
    ELSE << Head(s) >> \o InsertDesc(x, Tail(s))

\* insertion behind every element whose key is not larger: stable, ascending
RECURSIVE InsertAscBar(_, _)
InsertAscBar(x, s) ==
    IF s = << >> THEN << x >>
    ELSE IF RLt(Magnitude(x), Magnitude(Head(s))) THEN << x >> \o s
    ELSE << Head(s) >> \o InsertAscBar(x, Tail(s))

RECURSIVE SortInto(_, _)
SortInto(acc, rest) ==
    IF rest = << >> THEN acc ELSE SortInto(InsertDesc(Head(rest), acc), Tail(rest))

RECURSIVE SortIntoAsc(_, _)
SortIntoAsc(acc, rest) ==
    IF rest = << >> THEN acc ELSE SortIntoAsc(InsertAscBar(Head(rest), acc), Tail(rest))

\* the sort without reverse=True
SortBarsAscending(bs) == SortIntoAsc(<< >>, bs)

\* bars.sort(key=..., reverse=True)
SortBars(bs) == SortInto(<< >>, bs)

\* the undetected incidents of the run just completed, summed over its paths
UndetectedTotal == SumSeq([k \in 1..Len(n_fraud) |-> Undet(n_fraud[k], frac_undetected)])

\* the parameter sets tornado_data is called with
TornadoParamSpace ==
    { MakeParams(10, pf, pd, 10) : pf \in {0, 40}, pd \in {0, 50, 100} }

\* perturb, in units of 1/PerturbDen
Perturbs == {2, 5}

TornadoReset ==
    /\ tparams' = NoParams
    /\ cfg_seed' = 0
    /\ tn_paths' = 0
    /\ perturb' = 0
    /\ phase' = 0
    /\ base_mean' = RZero
    /\ lo' = RZero
    /\ hi' = RZero
    /\ bars' = << >>
    /\ runs' = << >>

\* tornado_data, entry up to the baseline call of run_monte_carlo
TornadoCall(p, sd, n, pt) ==
    /\ pc = "idle"
    /\ tpc = "none"
    /\ tpc' = "running"
    /\ tparams' = p
    /\ cfg_seed' = sd
    /\ tn_paths' = n
    /\ perturb' = pt
    /\ phase' = 0
    /\ base_mean' = RZero
    /\ lo' = RZero
    /\ hi' = RZero
    /\ bars' = << >>
    /\ runs' = << >>
    /\ EngineEnter(p, sd, n, "tornado")
    /\ kpiLog' = << >>
    /\ samples' = << >>
    /\ UNCHANGED first

\* tornado_data from the return of one run_monte_carlo call to the next call,
\* or to its own return.  phase 0 is the baseline run, phase 2j-1 the low run
\* and phase 2j the high run of keys[j].
TornadoStep ==
    /\ tpc = "running"
    /\ caller = "tornado"
    /\ pc \in {"returned", "raised"}
    /\ IF pc = "raised"
       THEN /\ tpc' = "raised"
            /\ pc' = "idle"
            /\ UNCHANGED << caller, params, seed, n_paths, rng, n_fraud,
                            frac_undetected, total_draws, severities, losses, cursor, i,
                            result, drawn, phase, base_mean, lo, hi, bars, runs >>
       ELSE LET mean == result.mean_loss
                j == (phase + 1) \div 2
                bar == [name |-> keys[j], low |-> RSub(lo, base_mean),
                        high |-> RSub(mean, base_mean)]
            IN  /\ runs' = Append(runs, [phase |-> phase, seed |-> seed,
                                         n_paths |-> n_paths,
                                         detection_rate |-> params.detection_rate,
                                         mean_loss |-> mean,
                                         undetected |-> UndetectedTotal])
                /\ base_mean' = IF phase = 0 THEN mean ELSE base_mean
                /\ lo' = IF phase % 2 = 1 THEN mean ELSE lo
                /\ hi' = IF phase > 0 /\ phase % 2 = 0 THEN mean ELSE hi
                /\ phase' = phase + 1
                /\ IF phase = 2 * Len(keys)
                   THEN /\ bars' = SortBars(Append(bars, bar))
                        /\ tpc' = "done"
                        /\ pc' = "idle"
                        /\ UNCHANGED << caller, params, seed, n_paths, rng, n_fraud,
                                        frac_undetected, total_draws, severities, losses,
                                        cursor, i, result, drawn >>
                   ELSE /\ bars' = IF phase > 0 /\ phase % 2 = 0
                                   THEN Append(bars, bar) ELSE bars
                        /\ tpc' = "running"
                        /\ IF phase % 2 = 0
                           THEN EngineEnter(LowParams(tparams, keys[(phase \div 2) + 1],
                                                      perturb),
                                            cfg_seed, tn_paths, "tornado")
                           ELSE EngineEnter(HighParams(tparams, keys[j], perturb),
                                            cfg_seed, tn_paths, "tornado")
    /\ UNCHANGED << tparams, cfg_seed, tn_paths, perturb, kpiLog, samples, first >>

\* tornado_data on every input
NextTornado ==
    \/ \E p \in TornadoParamSpace, sd \in Seeds, n \in PathCounts, pt \in Perturbs :
          TornadoCall(p, sd, n, pt)
    \/ DrawPoisson
    \/ SizePool
    \/ DrawSeverities
    \/ AggregatePath
    \/ Metrics
    \/ TornadoStep

SpecTornado == Init /\ [][NextTornado]_vars

\* ------------------------------------------------------------ lhs_samples

\* low_high_pairs, in the dict's insertion order
LowHighPairs ==
    << [name |-> "base_fraud_rate", low |-> 0, high |-> 40],
       [name |-> "detection_rate", low |-> 50, high |-> 100] >>

\* u = (bins[:-1] + bins[1:]) / 2.0: the n stratum midpoints (2j - 1) / 2n
Midpoints(n) == [j \in 1..n |-> Rat(2 * j - 1, 2 * n)]

Swap(u, a, b) == [u EXCEPT ![a] = u[b], ![b] = u[a]]

\* rng.shuffle(u): Fisher-Yates from the last position down
RECURSIVE ShuffleFrom(_, _, _)
ShuffleFrom(s, u, k) ==
    IF k < 2 THEN [vals |-> u, rng |-> s]
    ELSE LET s1 == NextState(s)
         IN  ShuffleFrom(s1, Swap(u, k, (s1 % k) + 1), k - 1)

\* vals = lo + u * (hi - lo)
ScaleInto(u, low, high) ==
    [j \in 1..Len(u) |-> Rat(low * u[j].den + u[j].num * (high - low), u[j].den)]

\* the loop over low_high_pairs: the columns built so far and the generator
RECURSIVE LhsColumns(_, _, _)
LhsColumns(s, pairs, n) ==
    IF pairs = << >> THEN [out |-> << >>, rng |-> s]
    ELSE LET sh == ShuffleFrom(s, Midpoints(n), n)
             rest == LhsColumns(sh.rng, Tail(pairs), n)
         IN  [out |-> << ScaleInto(sh.vals, Head(pairs).low, Head(pairs).high) >>
                         \o rest.out,
              rng |-> rest.rng]

\* lhs_samples(low_high_pairs, n, seed)
lhs_samples(n, sd) ==
    /\ pc = "idle"
    /\ tpc = "none"
    /\ LET cols == LhsColumns(default_rng(sd), LowHighPairs, n)
       IN  /\ rng' = cols.rng
           /\ samples' = [j \in 1..n |->
                            [c \in 1..Len(LowHighPairs) |->
                               [name |-> LowHighPairs[c].name, value |-> cols.out[c][j]]]]
    /\ first' = IF first.set THEN [first EXCEPT !.between = TRUE] ELSE first
    /\ UNCHANGED << pc, caller, params, seed, n_paths, n_fraud, frac_undetected,
                    total_draws, severities, losses, cursor, i, result, drawn, kpiLog,
                    tornadoVars >>

\* ------------------------------------------------- sequences of calls

\* the parameter sets of the repeated calls
RepeatParamSpace == { MakeParams(10, 40, pd, 10) : pd \in {0, 50} }

\* the caller takes the result of run_monte_carlo; the frame is gone, the
\* generator object it built is garbage
Finish ==
    /\ pc \in {"returned", "raised"}
    /\ caller = "main"
    /\ first' = IF first.set
                THEN [first EXCEPT !.between = TRUE]
                ELSE IF pc = "returned"
                THEN [set |-> TRUE, between |-> FALSE, params |-> params,
                      seed |-> seed, n_paths |-> n_paths, result |-> result]
                ELSE first
    /\ pc' = "idle"
    /\ params' = NoParams
    /\ seed' = 0
    /\ n_paths' = 0
    /\ n_fraud' = << >>
    /\ frac_undetected' = 0
    /\ total_draws' = 0
    /\ severities' = << >>
    /\ losses' = << >>
    /\ cursor' = 0
    /\ i' = 0
    /\ result' = NoResult
    /\ drawn' = [poisson |-> 0, normal |-> 0]
    /\ kpiLog' = << >>
    /\ UNCHANGED << caller, rng, tornadoVars, samples >>

\* the caller takes the bars of tornado_data
TornadoFinish ==
    /\ tpc \in {"done", "raised"}
    /\ tpc' = "none"
    /\ TornadoReset
    /\ first' = IF first.set THEN [first EXCEPT !.between = TRUE] ELSE first
    /\ params' = NoParams
    /\ seed' = 0
    /\ n_paths' = 0
    /\ n_fraud' = << >>
    /\ frac_undetected' = 0
    /\ total_draws' = 0
    /\ severities' = << >>
    /\ losses' = << >>
    /\ cursor' = 0
    /\ i' = 0
    /\ result' = NoResult
    /\ drawn' = [poisson |-> 0, normal |-> 0]
    /\ UNCHANGED << pc, caller, rng, kpiLog, samples >>

\* run_monte_carlo, tornado_data and lhs_samples called one after another,
\* in any order and any number of times
NextRepeat ==
    \/ \E p \in RepeatParamSpace, sd \in Seeds, n \in PathCounts : Call(p, sd, n)
    \/ \E p \in RepeatParamSpace, sd \in Seeds, n \in PathCounts :
          TornadoCall(p, sd, n, 2)
    \/ \E n \in PathCounts, sd \in Seeds : lhs_samples(n, sd)
    \/ DrawPoisson
    \/ SizePool
    \/ DrawSeverities
    \/ AggregatePath
    \/ Metrics
    \/ TornadoStep
    \/ Finish
    \/ TornadoFinish

SpecRepeat == Init /\ [][NextRepeat]_vars

\* ================================================================ claims

\* ---- run_monte_carlo, under Spec

AllZero(ls) == \A k \in 1..Len(ls) : ls[k] = 0

\* u = clamp(1 - detection_rate, 0, 1) of the current call
U == Clip(Den - params.detection_rate, 0, Den)

\* undet[k] = floor(n_fraud[k] * u)
UndetAt(k) == (n_fraud[k] * U) \div Den

\* undet[1] + ... + undet[k]
RECURSIVE Prefix(_)
Prefix(k) == IF k = 0 THEN 0 ELSE Prefix(k - 1) + UndetAt(k)

\* the sum of the pool entries at positions a+1 .. b
RECURSIVE PoolSum(_, _)
PoolSum(a, b) == IF b <= a THEN 0 ELSE PoolSum(a, b - 1) + severities[b]

\* the claim's validity of an input: rates in [0,1], sev_sigma > 0,
\* n_transactions > 0, n_paths > 0
ValidInput ==
    /\ params.base_fraud_rate >= 0 /\ params.base_fraud_rate <= Den
    /\ params.detection_rate >= 0 /\ params.detection_rate <= Den
    /\ params.sev_sigma > 0
    /\ params.n_transactions > 0
    /\ n_paths > 0

\* C2: a call with an invalid parameter is rejected before any Poisson or
\* normal sample is drawn, and never returns a result.
C2_RejectedBeforeDraw ==
    (pc # "idle" /\ ~ValidInput) =>
        (drawn.poisson = 0 /\ drawn.normal = 0 /\ pc # "returned")

\* the degenerate inputs: full detection, no fraud, no transactions
ZeroFraud == params.base_fraud_rate = 0 \/ params.n_transactions = 0
Degenerate == params.detection_rate = Den \/ ZeroFraud

\* C3: on a degenerate input (all other parameters valid) the call raises
\* nothing and returns a result of n_paths losses, all exactly 0, with
\* mean_loss, var_95 and cvar_95 equal to 0; with zero fraud n_fraud_mean is 0.
C3_DegenerateAllZero ==
    (pc # "idle" /\ ValidParams(params) /\ Degenerate) =>
        /\ pc # "raised"
        /\ pc = "returned" =>
              /\ Len(result.losses) = n_paths
              /\ AllZero(result.losses)
              /\ result.mean_loss.num = 0
              /\ result.var_95.num = 0
              /\ result.cvar_95.num = 0
              /\ ZeroFraud => result.n_fraud_mean.num = 0

\* full detection of a positive number of incidents: a returned all-zero result
C3_Witness ==
    /\ pc = "returned"
    /\ ValidParams(params)
    /\ params.detection_rate = Den
    /\ result.n_fraud_mean.num > 0
    /\ n_paths > 1

\* C4: every returned result has cvar_95 >= var_95, and on the normal path
\* the tail {losses >= var_95} is not empty.
C4_CvarAtLeastVar ==
    pc = "returned" =>
        /\ RLeq(result.var_95, result.cvar_95)
        /\ result.kind = "normal" =>
              \E k \in 1..Len(result.losses) :
                  RLeq(result.var_95, Rat(result.losses[k], 1))

\* a result whose tail mean lies strictly above an interpolated, positive
\* threshold
C4_Witness ==
    /\ pc = "returned"
    /\ result.var_95.num > 0
    /\ RLt(result.var_95, result.cvar_95)
    /\ \E k \in 1..Len(result.losses) : RLt(Rat(result.losses[k], 1), result.var_95)

\* C7: for one result and budgets b1 <= b2, breach_prob at b1 >= breach_prob
\* at b2; breach_prob is the number of paths with loss strictly above the
\* budget over the number of paths, and lies in [0,1].
C7_BreachMonotone ==
    \A a \in 1..Len(kpiLog) :
        /\ kpiLog[a].kpi.breach_prob.den = Len(result.losses)
        /\ kpiLog[a].kpi.breach_prob.num =
              Cardinality({k \in 1..Len(result.losses) :
                              result.losses[k] > kpiLog[a].budget})
        /\ RLeq(RZero, kpiLog[a].kpi.breach_prob)
        /\ RLeq(kpiLog[a].kpi.breach_prob, Rat(1, 1))
        /\ \A b \in 1..Len(kpiLog) :
              kpiLog[a].budget <= kpiLog[b].budget =>
                  RLeq(kpiLog[b].kpi.breach_prob, kpiLog[a].kpi.breach_prob)

\* two budgets with strictly different breach probabilities, the larger
\* budget equal to the loss of one path while another path lies above it
C7_Witness ==
    /\ Len(kpiLog) = 2
    /\ kpiLog[1].budget < kpiLog[2].budget
    /\ RLt(kpiLog[2].kpi.breach_prob, kpiLog[1].kpi.breach_prob)
    /\ kpiLog[2].kpi.breach_prob.num > 0
    /\ \E k \in 1..Len(result.losses) : result.losses[k] = kpiLog[2].budget

\* C8: the loss of path k is the sum of the pool entries at positions
\* (undet[1]+...+undet[k-1], undet[1]+...+undet[k]]; a path with undet = 0
\* gets 0 and leaves the cursor; the ranges of two paths do not overlap; the
\* losses sum to the sum of the first undet[1]+...+undet[n_paths] entries.
C8_PathOrderPartition ==
    (pc = "aggregate" \/ (pc = "returned" /\ result.kind = "normal")) =>
        /\ cursor = Prefix(i)
        /\ Prefix(i) <= Len(severities)
        /\ \A k \in 1..i :
              /\ losses[k] = PoolSum(Prefix(k - 1), Prefix(k))
              /\ UndetAt(k) = 0 => (losses[k] = 0 /\ Prefix(k) = Prefix(k - 1))
        /\ SumSeq([k \in 1..i |-> losses[k]]) = PoolSum(0, Prefix(i))
        /\ pc = "returned" => (i = n_paths /\ result.losses = losses)

\* three paths: two with undetected incidents around one without
C8_Witness ==
    /\ pc = "returned"
    /\ result.kind = "normal"
    /\ n_paths >= 3
    /\ UndetAt(1) > 0
    /\ UndetAt(2) = 0
    /\ UndetAt(3) > 0
    /\ result.losses[1] # result.losses[3]

\* C9: when the undetected incidents of all paths total zero, the call
\* returns all-zero losses through the early return and no severity is drawn
\* (stated for valid parameters).
C9_NoSeverityDrawOnZeroTotal ==
    (pc \in {"aggregate", "returned"} /\ ValidParams(params) /\ Prefix(n_paths) = 0) =>
        /\ drawn.normal = 0
        /\ pc = "returned" => (result.kind = "early" /\ AllZero(result.losses))

\* C10: in the aggregation loop cursor + undet <= total_draws at every
\* iteration, total_draws being the size of the pool drawn, because the
\* per-path undetected counts total at most floor(sum(n_fraud) * u + 1).
C10_CursorInsidePool ==
    pc = "aggregate" =>
        /\ total_draws = Len(severities)
        /\ total_draws = ((SumSeq(n_fraud) * U) \div Den) + 1
        /\ Prefix(n_paths) <= total_draws
        /\ cursor <= total_draws
        /\ i < n_paths => cursor + UndetAt(i + 1) <= total_draws

\* the last path's slice, taken after an earlier non-empty one, ends on the
\* last-but-one pool entry: the tightest case
C10_Witness ==
    /\ pc = "aggregate"
    /\ i = n_paths - 1
    /\ cursor > 0
    /\ UndetAt(i + 1) > 0
    /\ cursor + UndetAt(i + 1) = total_draws - 1

\* ---- tornado_data, under SpecTornado

\* the bar of driver nm
BarOf(nm) == CHOOSE b \in {bars[k] : k \in 1..Len(bars)} : b.name = nm

\* C5: tornado_data returns exactly one bar for each of the three drivers,
\* ordered by non-increasing max(|low_delta|, |high_delta|).
C5_BarsSorted ==
    tpc = "done" =>
        /\ Len(bars) = 3
        /\ {bars[k].name : k \in 1..Len(bars)} =
              {"base_fraud_rate", "detection_rate", "sev_sigma"}
        /\ \A k \in 1..(Len(bars) - 1) :
              RLeq(RMax(RAbs(bars[k + 1].low), RAbs(bars[k + 1].high)),
                   RMax(RAbs(bars[k].low), RAbs(bars[k].high)))

\* bars returned in another order than the drivers were run in, with three
\* different magnitudes
C5_Witness ==
    /\ tpc = "done"
    /\ [k \in 1..3 |-> bars[k].name] # keys
    /\ RLt(Magnitude(bars[2]), Magnitude(bars[1]))
    /\ RLt(Magnitude(bars[3]), Magnitude(bars[2]))

\* the baseline run and the low and high runs of detection_rate
BaseRun == runs[1]
DetLowRun == runs[4]
DetHighRun == runs[5]

\* the three runs share seed and trial count, and detection rises from the
\* low run over the baseline to the high run
C6_Paired ==
    /\ BaseRun.phase = 0 /\ DetLowRun.phase = 3 /\ DetHighRun.phase = 4
    /\ BaseRun.seed = cfg_seed /\ DetLowRun.seed = cfg_seed /\ DetHighRun.seed = cfg_seed
    /\ BaseRun.n_paths = tn_paths /\ DetLowRun.n_paths = tn_paths
    /\ DetHighRun.n_paths = tn_paths
    /\ DetLowRun.detection_rate <= BaseRun.detection_rate
    /\ BaseRun.detection_rate <= DetHighRun.detection_rate
    /\ REq(BarOf("detection_rate").low, RSub(DetLowRun.mean_loss, BaseRun.mean_loss))
    /\ REq(BarOf("detection_rate").high, RSub(DetHighRun.mean_loss, BaseRun.mean_loss))

\* C6 as stated: the detection_rate bar's low delta is positive and its high
\* delta negative, the three runs being paired.
C6_DetectionDeltasStrict ==
    tpc = "done" =>
        /\ C6_Paired
        /\ RLt(RZero, BarOf("detection_rate").low)
        /\ RLt(BarOf("detection_rate").high, RZero)

\* C6, amended: the three runs are paired; the low delta is >= 0 and the high
\* delta <= 0 (mean_loss never increases with detection_rate); each delta is
\* non-zero exactly when the run's total undetected-incident count differs
\* from the baseline's.
C6_DetectionDeltasMonotone ==
    tpc = "done" =>
        /\ C6_Paired
        /\ RLeq(RZero, BarOf("detection_rate").low)
        /\ RLeq(BarOf("detection_rate").high, RZero)
        /\ DetLowRun.undetected >= BaseRun.undetected
        /\ DetHighRun.undetected <= BaseRun.undetected
        /\ RLt(RZero, BarOf("detection_rate").low)
              <=> DetLowRun.undetected > BaseRun.undetected
        /\ RLt(BarOf("detection_rate").high, RZero)
              <=> DetHighRun.undetected < BaseRun.undetected

\* a tornado run whose detection_rate bar has a positive low delta and a
\* negative high delta
C6_Witness ==
    /\ tpc = "done"
    /\ RLt(RZero, BarOf("detection_rate").low)
    /\ RLt(BarOf("detection_rate").high, RZero)
    /\ DetHighRun.undetected > 0

\* ---- sequences of calls, under SpecRepeat

\* C1: a run_monte_carlo call with the (params, seed, n_paths) of the first
\* completed call returns the identical result (losses, mean_loss, var_95,
\* cvar_95, n_fraud_mean), whatever run_monte_carlo, tornado_data or
\* lhs_samples calls were made before it.
C1_SameInputsSameResult ==
    (/\ pc = "returned"
     /\ first.set
     /\ params = first.params
     /\ seed = first.seed
     /\ n_paths = first.n_paths) => result = first.result

\* a second top-level call with the first call's arguments, returned with
\* non-zero losses after another call has completed in between
C1_Witness ==
    /\ pc = "returned"
    /\ caller = "main"
    /\ first.set
    /\ first.between
    /\ params = first.params
    /\ seed = first.seed
    /\ n_paths = first.n_paths
    /\ result.mean_loss.num > 0
    /\ result = first.result

====
